---- MODULE Spec2Model ----
(***************************************************************************)
(* A model of the Notion static site generator (class NotionSSG and the    *)
(* command line entry point main).                                         *)
(*                                                                         *)
(* JavaScript strings are modelled as sequences of one-character strings,  *)
(* so that concatenation, lower-casing, trimming and the regular           *)
(* expression replacements of the source are computed character by         *)
(* character.  An optional value (a field that may be undefined or null)   *)
(* is a record [def, v].                                                   *)
(***************************************************************************)
EXTENDS Integers, Sequences, FiniteSets, TLC

VARIABLES
    pc,          \* position of the running operation
    text,        \* slugify: its argument
    slug,        \* slugify: its return value
    reslug,      \* slugify: its return value on its own output
    richText,    \* extractRichText: its argument
    markup,      \* extractRichText: its return value
    page,        \* extractTitle / extractMetadata: the page argument
    title,       \* extractTitle: its outcome
    metadata,    \* extractMetadata: its return value
    blocks,      \* processBlocks: its argument
    content,     \* processBlocks: its return value
    env,         \* process.env: the credentials of the environment
    options,     \* main: the parsed command line options
    config,      \* NotionSSG.config
    dirs,        \* the directories that exist in the file system
    files,       \* the files of the file system, path -> content
    pages,       \* the pages of the remote database, with their block responses
    pageIndex,   \* the position of the running for loop over pages
    contentData, \* fetchNotionData: the list built so far
    exit         \* how the process ended

vars == <<pc, text, slug, reslug, richText, markup, page, title, metadata, blocks,
          content, env, options, config, dirs, files, pages, pageIndex,
          contentData, exit>>

slugVars  == <<text, slug, reslug>>
richVars  == <<richText, markup>>
pageVars  == <<page, title, metadata>>
blockVars == <<blocks, content>>
mainVars  == <<env, options, config, dirs, files, pages, pageIndex,
               contentData, exit>>

(***************************************************************************)
(* Bounds of the model.                                                    *)
(***************************************************************************)
MaxLen == 4      \* longest slugify argument
MaxSpans == 2    \* most text spans of one rich text
MaxProps == 2    \* most entries of one property bag
MaxBlocks == 2   \* most blocks of one page
MaxPages == 2    \* most pages of the remote database

(***************************************************************************)
(* Strings.                                                                *)
(***************************************************************************)
Upper == <<"A","B","C","D","E","F","G","H","I","J","K","L","M",
           "N","O","P","Q","R","S","T","U","V","W","X","Y","Z">>
Lower == <<"a","b","c","d","e","f","g","h","i","j","k","l","m",
           "n","o","p","q","r","s","t","u","v","w","x","y","z">>
Digits == {"0","1","2","3","4","5","6","7","8","9"}

Range(s) == {s[i] : i \in DOMAIN s}

\* An optional string: undefined, or the string v.
Undef == [def |-> FALSE, v |-> <<>>]
Str(s) == [def |-> TRUE, v |-> s]
\* x || "" of JavaScript: undefined and the empty string are both falsy
OrEmpty(x) == IF x.def /\ x.v # <<>> THEN x.v ELSE <<>>

RECURSIVE Join(_)
\* Array.prototype.join("") of an array of strings
Join(ss) == IF ss = <<>> THEN <<>> ELSE Head(ss) \o Join(Tail(ss))

IsUpper(c) == \E i \in DOMAIN Upper : Upper[i] = c
IsLower(c) == \E i \in DOMAIN Lower : Lower[i] = c
\* \s of a JavaScript regular expression, and the characters trim() removes
Spaces == {" ", "\t", "\n"}
IsSpace(c) == c \in Spaces
\* \w of a JavaScript regular expression: [A-Za-z0-9_]
IsWord(c) == IsUpper(c) \/ IsLower(c) \/ c \in Digits \/ c = "_"

ToLowerChar(c) ==
    IF IsUpper(c) THEN Lower[CHOOSE i \in DOMAIN Upper : Upper[i] = c] ELSE c

\* String.prototype.toLowerCase
toLowerCase(s) == [i \in DOMAIN s |-> ToLowerChar(s[i])]

RECURSIVE DropLeading(_, _)
DropLeading(s, D) ==
    IF s # <<>> /\ Head(s) \in D THEN DropLeading(Tail(s), D) ELSE s

RECURSIVE DropTrailing(_, _)
DropTrailing(s, D) ==
    IF s # <<>> /\ s[Len(s)] \in D
    THEN DropTrailing(SubSeq(s, 1, Len(s) - 1), D)
    ELSE s

\* String.prototype.trim
trim(s) == DropTrailing(DropLeading(s, Spaces), Spaces)

\* .replace(/[^\w\s-]/g, "")
IsKept(c) == IsWord(c) \/ IsSpace(c) \/ c = "-"
RemoveNonWord(s) == SelectSeq(s, IsKept)

\* .replace(/[\s_-]+/g, "-")
Separators == Spaces \cup {"_", "-"}
IsSeparator(c) == c \in Separators
RECURSIVE CollapseSeparators(_)
CollapseSeparators(s) ==
    IF s = <<>> THEN <<>>
    ELSE IF IsSeparator(Head(s))
         THEN <<"-">> \o CollapseSeparators(DropLeading(s, Separators))
         ELSE <<Head(s)>> \o CollapseSeparators(Tail(s))

\* .replace(/^-+|-+$/g, "")
StripHyphensLeadingOnly(s) == DropLeading(s, {"-"})
StripHyphens(s) == DropTrailing(DropLeading(s, {"-"}), {"-"})

slugifyStripFirst(t) ==
    CollapseSeparators(StripHyphens(RemoveNonWord(trim(toLowerCase(t)))))
slugifyLeadingOnly(t) ==
    StripHyphensLeadingOnly(
        CollapseSeparators(RemoveNonWord(trim(toLowerCase(t)))))
\* NotionSSG.slugify
slugify(t) ==
    StripHyphens(CollapseSeparators(RemoveNonWord(trim(toLowerCase(t)))))

(***************************************************************************)
(* slugify applied to every string over an alphabet that holds one         *)
(* character of each class the regular expressions tell apart.             *)
(***************************************************************************)
SlugChars == {"A", "b", "7", "_", "-", " ", "!"}
SlugInputs == UNION {[1..n -> SlugChars] : n \in 0..MaxLen}

(***************************************************************************)
(* Rich text.                                                              *)
(***************************************************************************)
\* text.annotations || {}: a span without annotations has no flag set
NoAnnotations ==
    [def |-> FALSE, bold |-> FALSE, italic |-> FALSE, strikethrough |-> FALSE,
     underline |-> FALSE, code |-> FALSE, color |-> "default"]
Annotations ==
    [def : {TRUE}, bold : BOOLEAN, italic : BOOLEAN, strikethrough : BOOLEAN,
     underline : BOOLEAN, code : BOOLEAN, color : {"default"}]
    \cup {[def |-> TRUE, bold |-> TRUE, italic |-> FALSE,
           strikethrough |-> FALSE, underline |-> FALSE, code |-> TRUE,
           color |-> "red"]}
    \cup {NoAnnotations}

\* the backquote character, which a string of this module cannot hold
Backtick == "BACKTICK"

Wrap(flag, mark, s) == IF flag THEN mark \o s \o mark ELSE s

\* the body of the loop of extractRichText: one span's markup
renderSpan(span) ==
    LET content0 == OrEmpty(span.plain_text)
        a == span.annotations
        content1 == Wrap(a.bold, <<"*", "*">>, content0)
        content2 == Wrap(a.italic, <<"*">>, content1)
        content3 == Wrap(a.strikethrough, <<"~", "~">>, content2)
        content4 == Wrap(a.code, <<Backtick>>, content3)
    IN  content4

\* NotionSSG.extractRichText
extractRichText(rt) == Join([i \in DOMAIN rt |-> renderSpan(rt[i])])

Spans == [plain_text : {Undef, Str(<<"x">>)}, annotations : Annotations]
RichTexts == UNION {[1..n -> Spans] : n \in 0..MaxSpans}

(***************************************************************************)
(* Pages and their property bags.  A bag is the sequence of its entries in *)
(* the order Object.entries gives them, which for names that are not       *)
(* array indices is the order of the source; no two entries share a name.  *)
(***************************************************************************)
\* the values of the fields a property may carry under the name of its type
NoSelect == [def |-> FALSE, name |-> Undef]
NoMultiSelect == [def |-> FALSE, items |-> <<>>]
NoDate == [def |-> FALSE, start |-> Undef]
NoTitle == [kind |-> "undefined", parts |-> <<>>]

Prop(type, select, multi_select, date, ttl) ==
    [type |-> type, select |-> select, multi_select |-> multi_select,
     date |-> date, title |-> ttl]

\* a metadata field holds a string or a list of strings
StringValue(s) == [kind |-> "string", s |-> s, list |-> <<>>]
ListValue(l) == [kind |-> "list", s |-> <<>>, list |-> l]

createdTimeKey == <<"c","r","e","a","t","e","d","T","i","m","e">>
lastEditedTimeKey ==
    <<"l","a","s","t","E","d","i","t","e","d","T","i","m","e">>
urlKey == <<"u","r","l">>

\* metadata[key] = value
Put(md, key, value) ==
    [k \in DOMAIN md \cup {key} |-> IF k = key THEN value ELSE md[k]]

WriteFieldRawKey(md, key, value) == Put(md, key, value)
WriteFieldFirstWins(md, key, value) ==
    IF toLowerCase(key) \in DOMAIN md \ {urlKey} THEN md
    ELSE Put(md, toLowerCase(key), value)
\* metadata[key.toLowerCase()] = value
WriteField(md, key, value) == Put(md, toLowerCase(key), value)

\* the body of the loop of extractMetadata over Object.entries(properties)
extractProperty(md, entry) ==
    LET key == entry.key
        prop == entry.prop
        propType == prop.type
    IN  IF propType = "select" /\ prop.select.def
        THEN WriteField(md, key, StringValue(OrEmpty(prop.select.name)))
        ELSE IF propType = "multi_select" /\ prop.multi_select.def
        THEN WriteField(md, key,
                 ListValue([i \in DOMAIN prop.multi_select.items |->
                              OrEmpty(prop.multi_select.items[i].name)]))
        ELSE IF propType = "date" /\ prop.date.def
        THEN WriteField(md, key, StringValue(OrEmpty(prop.date.start)))
        ELSE md

RECURSIVE extractProperties(_, _)
extractProperties(md, entries) ==
    IF entries = <<>> THEN md
    ELSE extractProperties(extractProperty(md, Head(entries)), Tail(entries))

\* page.properties || {}
PropertiesOf(pg) == IF pg.properties.def THEN pg.properties.bag ELSE <<>>

\* the fixed fields of the metadata record
FixedFields(pg) ==
    (createdTimeKey :> StringValue(OrEmpty(pg.created_time)))
    @@ (lastEditedTimeKey :> StringValue(OrEmpty(pg.last_edited_time)))
    @@ (urlKey :> StringValue(OrEmpty(pg.url)))

\* NotionSSG.extractMetadata
extractMetadata(pg) == extractProperties(FixedFields(pg), PropertiesOf(pg))

\* the pages extractMetadata is applied to
MetaKeys == {<<"U","R","L">>, <<"T","a","g","s">>, <<"t","a","g","s">>,
             <<"T","A","G","S">>}
SelectValues ==
    {NoSelect, [def |-> TRUE, name |-> Str(<<"a">>)],
     [def |-> TRUE, name |-> Str(<<"b">>)], [def |-> TRUE, name |-> Undef]}
MultiSelectValues ==
    {NoMultiSelect, [def |-> TRUE, items |-> <<>>],
     [def |-> TRUE, items |-> <<[name |-> Str(<<"a">>)], [name |-> Undef]>>]}
DateValues ==
    {NoDate, [def |-> TRUE, start |-> Str(<<"2","0","2","5">>)],
     [def |-> TRUE, start |-> Undef]}
MetaProps ==
    {Prop("select", v, NoMultiSelect, NoDate, NoTitle) : v \in SelectValues}
    \cup {Prop("multi_select", NoSelect, v, NoDate, NoTitle) :
             v \in MultiSelectValues}
    \cup {Prop("date", NoSelect, NoMultiSelect, v, NoTitle) : v \in DateValues}
    \cup {Prop("rich_text", NoSelect, NoMultiSelect, NoDate, NoTitle),
          Prop("rich_text", [def |-> TRUE, name |-> Str(<<"a">>)],
               NoMultiSelect, NoDate, NoTitle)}

Bags(keys, props) ==
    LET Entries == [key : keys, prop : props]
    IN  UNION {{b \in [1..n -> Entries] :
                  \A i, j \in 1..n : i # j => b[i].key # b[j].key} :
               n \in 0..MaxProps}

PageFields ==
    {[id |-> "p1", created_time |-> Str(<<"c">>),
      last_edited_time |-> Str(<<"e">>), url |-> Str(<<"u">>)],
     [id |-> "p2", created_time |-> Undef,
      last_edited_time |-> Str(<<"e">>), url |-> Undef],
     [id |-> "p3", created_time |-> Str(<<"c">>),
      last_edited_time |-> Undef, url |-> Str(<<>>)]}

MakePage(f, properties) ==
    [id |-> f.id, created_time |-> f.created_time,
     last_edited_time |-> f.last_edited_time, url |-> f.url,
     properties |-> properties]
NoProperties == [def |-> FALSE, bag |-> <<>>]

MetaPages ==
    {MakePage(f, [def |-> TRUE, bag |-> b]) :
        f \in PageFields, b \in Bags(MetaKeys, MetaProps)}
    \cup {MakePage(f, NoProperties) : f \in PageFields}

(***************************************************************************)
(* Title extraction.                                                       *)
(***************************************************************************)
Untitled == <<"U","n","t","i","t","l","e","d">>
NameKey == <<"N","a","m","e">>
TitleKey == <<"T","i","t","l","e">>

\* properties[name]: the property of that name, if the bag has one
HasProperty(bag, name) == \E i \in DOMAIN bag : bag[i].key = name
Property(bag, name) == bag[CHOOSE i \in DOMAIN bag : bag[i].key = name].prop

Returned(s) == [threw |-> FALSE, value |-> s]
\* a TypeError leaves the function
Threw == [threw |-> TRUE, value |-> <<>>]

\* titleProp && titleProp.title, then titleProp.title.map(...).join(""):
\* a title that is truthy and no array has no map method
titleOf(titleProp) ==
    CASE titleProp.title.kind = "array" ->
            Returned(Join([i \in DOMAIN titleProp.title.parts |->
                             OrEmpty(titleProp.title.parts[i].plain_text)]))
      [] titleProp.title.kind \in {"string", "object"} -> Threw
      [] OTHER -> Returned(Untitled)

\* NotionSSG.extractTitle
extractTitle(pg) ==
    LET properties == PropertiesOf(pg)
    IN  IF HasProperty(properties, NameKey)
        THEN titleOf(Property(properties, NameKey))
        ELSE IF HasProperty(properties, TitleKey)
        THEN titleOf(Property(properties, TitleKey))
        ELSE Returned(Untitled)

TitleValues ==
    {NoTitle,
     [kind |-> "null", parts |-> <<>>],
     [kind |-> "array", parts |-> <<>>],
     [kind |-> "array",
      parts |-> <<[plain_text |-> Str(<<"M","y">>)],
                  [plain_text |-> Str(<<" ","P","a","g","e">>)]>>],
     [kind |-> "array",
      parts |-> <<[plain_text |-> Undef], [plain_text |-> Str(<<"x">>)]>>],
     [kind |-> "string", parts |-> <<>>],
     [kind |-> "object", parts |-> <<>>]}
TitleProps ==
    {Prop("title", NoSelect, NoMultiSelect, NoDate, t) : t \in TitleValues}
TitleKeys == {NameKey, TitleKey, <<"T","a","g","s">>}
TitlePages ==
    {MakePage(f, [def |-> TRUE, bag |-> b]) :
        f \in {g \in PageFields : g.id = "p1"},
        b \in Bags(TitleKeys, TitleProps)}
    \cup {MakePage(f, NoProperties) : f \in PageFields}

(***************************************************************************)
(* Blocks.  A block is its type tag and the payload object it carries      *)
(* under the name of its type, block[block.type].                          *)
(***************************************************************************)
NoSpans == [def |-> FALSE, spans |-> <<>>]
\* block[blockType] || {}: without a payload every field is undefined
NoPayload ==
    [def |-> FALSE, rich_text |-> NoSpans, checked |-> FALSE,
     language |-> Undef, caption |-> NoSpans, fileUrl |-> Undef,
     externalUrl |-> Undef, emoji |-> Undef]

RecognizedTypes ==
    {"paragraph", "heading_1", "heading_2", "heading_3",
     "bulleted_list_item", "numbered_list_item", "to_do", "code", "image",
     "quote", "divider", "callout"}

\* blockData.rich_text || [], blockData.caption || []
SpansOrNone(x) == IF x.def THEN x.spans ELSE <<>>
\* blockData.file?.url || blockData.external?.url || ""
imageUrl(d) ==
    IF OrEmpty(d.fileUrl) # <<>> THEN OrEmpty(d.fileUrl)
    ELSE OrEmpty(d.externalUrl)

Newline == "\n"

\* the switch of processBlocks: what one block pushes onto content
renderBlock(block) ==
    LET blockType == block.type
        blockData == IF block.data.def THEN block.data ELSE NoPayload
        txt == extractRichText(SpansOrNone(blockData.rich_text))
    IN  CASE blockType = "paragraph" -> txt \o <<Newline, Newline>>
          [] blockType = "heading_1" ->
                <<"#", " ">> \o txt \o <<Newline, Newline>>
          [] blockType = "heading_2" ->
                <<"#", "#", " ">> \o txt \o <<Newline, Newline>>
          [] blockType = "heading_3" ->
                <<"#", "#", "#", " ">> \o txt \o <<Newline, Newline>>
          [] blockType = "bulleted_list_item" ->
                <<"*", " ">> \o txt \o <<Newline>>
          [] blockType = "numbered_list_item" ->
                <<"1", ".", " ">> \o txt \o <<Newline>>
          [] blockType = "to_do" ->
                <<"-", " ", "[">>
                \o (IF blockData.checked THEN <<"x">> ELSE <<" ">>)
                \o <<"]", " ">> \o txt \o <<Newline>>
          [] blockType = "code" ->
                <<Backtick, Backtick, Backtick>>
                \o OrEmpty(blockData.language) \o <<Newline>> \o txt
                \o <<Newline, Backtick, Backtick, Backtick, Newline, Newline>>
          [] blockType = "image" ->
                IF imageUrl(blockData) # <<>>
                THEN <<"!", "[">>
                     \o extractRichText(SpansOrNone(blockData.caption))
                     \o <<"]", "(">> \o imageUrl(blockData)
                     \o <<")", Newline, Newline>>
                ELSE <<>>
          [] blockType = "quote" ->
                <<">", " ">> \o txt \o <<Newline, Newline>>
          [] blockType = "divider" -> <<"-", "-", "-", Newline, Newline>>
          [] blockType = "callout" ->
                <<">", " ">> \o OrEmpty(blockData.emoji) \o <<" ">> \o txt
                \o <<Newline, Newline>>
          [] OTHER -> <<>>

fragmentOfDefaultParagraph(block) ==
    IF block.type \in RecognizedTypes THEN renderBlock(block)
    ELSE extractRichText(SpansOrNone(block.data.rich_text))
         \o <<Newline, Newline>>
\* the body of the loop of processBlocks: what one block adds to content
fragmentOf(block) == renderBlock(block)

processBlocksRunningCounter(bs) ==
    LET IsNumbered(j) == bs[j].type = "numbered_list_item"
        ordinal(i) == Cardinality({j \in 1..i : IsNumbered(j)})
        ordinals == <<"1", "2", "3", "4", "5", "6", "7", "8", "9">>
    IN  Join([i \in DOMAIN bs |->
                IF IsNumbered(i)
                THEN <<ordinals[ordinal(i)]>> \o Tail(fragmentOf(bs[i]))
                ELSE fragmentOf(bs[i])])
\* NotionSSG.processBlocks
processBlocks(bs) == Join([i \in DOMAIN bs |-> fragmentOf(bs[i])])

\* the blocks processBlocks is applied to; "undefined" is a block without
\* a type tag, whose payload lookup block[undefined] finds nothing
BoldX ==
    [plain_text |-> Str(<<"x">>),
     annotations |-> [NoAnnotations EXCEPT !.def = TRUE, !.bold = TRUE]]
PlainY == [plain_text |-> Str(<<"y">>), annotations |-> NoAnnotations]
FullPayload ==
    [def |-> TRUE, rich_text |-> [def |-> TRUE, spans |-> <<BoldX, PlainY>>],
     checked |-> TRUE, language |-> Str(<<"j","s">>),
     caption |-> [def |-> TRUE, spans |-> <<PlainY>>],
     fileUrl |-> Str(<<"f">>), externalUrl |-> Str(<<"e">>),
     emoji |-> Str(<<"!">>)]
SparsePayload ==
    [NoPayload EXCEPT !.def = TRUE, !.externalUrl = Str(<<"e">>)]
BlockTypes == RecognizedTypes \cup {"child_page", "undefined"}
Blocks ==
    UNION {{[id |-> "b", type |-> t, data |-> d] :
              d \in IF t = "undefined" THEN {NoPayload}
                    ELSE {NoPayload, FullPayload, SparsePayload}} :
           t \in BlockTypes}
BlockLists == UNION {[1..n -> Blocks] : n \in 0..MaxBlocks}

Unset == <<"unset">>

IdleSlug  == text = <<>> /\ slug = Unset /\ reslug = Unset
IdleRich  == richText = <<>> /\ markup = Unset
IdlePage  == page = Unset /\ title = Unset /\ metadata = Unset
IdleBlock == blocks = <<>> /\ content = Unset
IdleMain  == /\ env = Unset /\ options = Unset /\ config = Unset
             /\ dirs = {} /\ files = <<>> /\ pages = <<>> /\ pageIndex = 0
             /\ contentData = <<>> /\ exit = "idle"

InitSlug ==
    /\ pc = "slugify"
    /\ text \in SlugInputs
    /\ slug = Unset
    /\ reslug = Unset
    /\ IdleRich /\ IdlePage /\ IdleBlock /\ IdleMain

\* a call of slugify on the title held in text
Slugify ==
    /\ pc = "slugify"
    /\ slug' = slugify(text)
    /\ pc' = "slugified"
    /\ UNCHANGED <<text, reslug, richVars, pageVars, blockVars, mainVars>>

\* slugify applied to its own output
Reslugify ==
    /\ pc = "slugified"
    /\ reslug' = slugify(slug)
    /\ pc' = "reslugified"
    /\ UNCHANGED <<text, slug, richVars, pageVars, blockVars, mainVars>>

NextSlug == Slugify \/ Reslugify

SpecSlug == InitSlug /\ [][NextSlug]_vars

\* C4: slugify is idempotent, slugify(slugify(s)) = slugify(s) for every
\* string s, and it is total: it returns a string for every string, the
\* empty one for a title without any word character.
C4_SlugifyIdempotent ==
    /\ pc \in {"slugified", "reslugified"} =>
          /\ slug \in Seq(SlugChars \cup Range(Lower))
          /\ (\A i \in DOMAIN text : ~IsWord(text[i]) \/ text[i] = "_")
                => slug = <<>>
    /\ pc = "reslugified" => reslug = slug

\* a title with upper case, punctuation and separators was slugified twice
C4_Witness ==
    /\ pc = "reslugified"
    /\ text = <<"_", "A", "!", " ">>
    /\ slug = <<"a">>
    /\ reslug = <<"a">>

HasDoubleHyphen(s) ==
    \E i \in 1..(Len(s) - 1) : s[i] = "-" /\ s[i + 1] = "-"

\* C5: the output of slugify holds only lower-case word characters and
\* hyphens, neither starts nor ends with a hyphen, and holds no run of two
\* hyphens, no whitespace and no upper-case letter.
C5_SlugAlphabet ==
    pc \in {"slugified", "reslugified"} =>
        /\ \A i \in DOMAIN slug :
              /\ (IsWord(slug[i]) /\ ~IsUpper(slug[i])) \/ slug[i] = "-"
              /\ ~IsSpace(slug[i])
        /\ slug # <<>> => slug[1] # "-" /\ slug[Len(slug)] # "-"
        /\ ~HasDoubleHyphen(slug)

\* a title whose raw form has an upper-case letter, a run of separators and
\* a trailing separator left behind by the removed punctuation
C5_Witness ==
    /\ pc = "slugified"
    /\ text = <<"A", " ", "-", "b">>
    /\ slug = <<"a", "-", "b">>

(***************************************************************************)
(* extractRichText applied to every rich text of at most MaxSpans spans.   *)
(***************************************************************************)
InitRich ==
    /\ pc = "extractRichText"
    /\ richText \in RichTexts
    /\ markup = Unset
    /\ IdleSlug /\ IdlePage /\ IdleBlock /\ IdleMain

ExtractRichText ==
    /\ pc = "extractRichText"
    /\ markup' = extractRichText(richText)
    /\ pc' = "extracted"
    /\ UNCHANGED <<richText, slugVars, pageVars, blockVars, mainVars>>

NextRich == ExtractRichText

SpecRich == InitRich /\ [][NextRich]_vars

\* the nesting the documentation gives: bold outermost, code innermost
NestBoldOutermost(span) ==
    LET a == span.annotations
    IN  Wrap(a.bold, <<"*", "*">>,
          Wrap(a.italic, <<"*">>,
            Wrap(a.strikethrough, <<"~", "~">>,
              Wrap(a.code, <<Backtick>>, OrEmpty(span.plain_text)))))

\* C1: for every span and every subset of the flags bold, italic,
\* strikethrough and code, extractRichText wraps the plain text with bold
\* outermost, then italic, then strikethrough, then code innermost;
\* underline and color add no markup.
C1_BoldOutermost ==
    pc = "extracted" =>
        markup = Join([i \in DOMAIN richText |-> NestBoldOutermost(richText[i])])

(***************************************************************************)
(* extractMetadata applied to every page of MetaPages.                     *)
(***************************************************************************)
InitMeta ==
    /\ pc = "extractMetadata"
    /\ page \in MetaPages
    /\ title = Unset
    /\ metadata = Unset
    /\ IdleSlug /\ IdleRich /\ IdleBlock /\ IdleMain

ExtractMetadata ==
    /\ pc = "extractMetadata"
    /\ metadata' = extractMetadata(page)
    /\ pc' = "extractedMetadata"
    /\ UNCHANGED <<page, title, slugVars, richVars, blockVars, mainVars>>

NextMeta == ExtractMetadata

SpecMeta == InitMeta /\ [][NextMeta]_vars

\* C2: for every page and every property bag the returned createdTime,
\* lastEditedTime and url equal page.created_time, page.last_edited_time and
\* page.url (the empty string if missing), whatever the bag holds.
C2_FixedFieldsFromPage ==
    pc = "extractedMetadata" =>
        /\ metadata[createdTimeKey] = StringValue(OrEmpty(page.created_time))
        /\ metadata[lastEditedTimeKey] =
              StringValue(OrEmpty(page.last_edited_time))
        /\ metadata[urlKey] = StringValue(OrEmpty(page.url))

IsTyped(e) == e.prop.type \in {"select", "multi_select", "date"}
IsPresent(e) ==
    \/ e.prop.type = "select" /\ e.prop.select.def
    \/ e.prop.type = "multi_select" /\ e.prop.multi_select.def
    \/ e.prop.type = "date" /\ e.prop.date.def
\* the select name, the list of multi-select names or the date start, and
\* the empty string or list where it is missing
ExtractedValue(e) ==
    CASE e.prop.type = "select" -> StringValue(OrEmpty(e.prop.select.name))
      [] e.prop.type = "multi_select" ->
            ListValue([i \in DOMAIN e.prop.multi_select.items |->
                         OrEmpty(e.prop.multi_select.items[i].name)])
      [] e.prop.type = "date" -> StringValue(OrEmpty(e.prop.date.start))
FixedKeys == {createdTimeKey, lastEditedTimeKey, urlKey}
SameField(e, f) == toLowerCase(e.key) = toLowerCase(f.key)

\* C6 as stated: every entry of type select, multi_select or date gives a
\* field under its lower-cased name holding its value, a missing value
\* giving the empty string or list; other entries add no field.  (Of
\* entries with one lower-cased name the last is the one looked at.)
C6_EveryTypedEntryWritten ==
    pc = "extractedMetadata" =>
        LET bag == PropertiesOf(page)
        IN  /\ \A i \in DOMAIN bag :
                  (/\ IsTyped(bag[i])
                   /\ \A j \in DOMAIN bag :
                         j > i /\ IsTyped(bag[j]) => ~SameField(bag[i], bag[j]))
                  => /\ toLowerCase(bag[i].key) \in DOMAIN metadata
                     /\ metadata[toLowerCase(bag[i].key)] =
                           ExtractedValue(bag[i])
            /\ DOMAIN metadata = FixedKeys \cup
                  {toLowerCase(bag[i].key) :
                     i \in {j \in DOMAIN bag : IsTyped(bag[j])}}

\* C6, amended: every entry of type select, multi_select or date whose
\* value is present gives a field under its lower-cased name, holding the
\* value of the last such entry with that lower-cased name; an entry of
\* these types whose value is absent and an entry of another type add no
\* field.
C6_PresentTypedEntryWritten ==
    pc = "extractedMetadata" =>
        LET bag == PropertiesOf(page)
            Written == {j \in DOMAIN bag : IsTyped(bag[j]) /\ IsPresent(bag[j])}
        IN  /\ \A i \in Written :
                  (\A j \in Written : j > i => ~SameField(bag[i], bag[j]))
                  => /\ toLowerCase(bag[i].key) \in DOMAIN metadata
                     /\ metadata[toLowerCase(bag[i].key)] =
                           ExtractedValue(bag[i])
            /\ DOMAIN metadata = FixedKeys \cup
                  {toLowerCase(bag[i].key) : i \in Written}

\* a bag with a present date, whose field is written, and a select without
\* a value, whose field is left out
C6_Witness ==
    /\ pc = "extractedMetadata"
    /\ page.properties.def
    /\ Len(page.properties.bag) = 2
    /\ page.properties.bag[1].prop.type = "date"
    /\ page.properties.bag[1].prop.date.def
    /\ page.properties.bag[1].key = <<"T","a","g","s">>
    /\ page.properties.bag[2].prop.type = "select"
    /\ ~page.properties.bag[2].prop.select.def
    /\ page.properties.bag[2].key = <<"U","R","L">>
    /\ DOMAIN metadata = FixedKeys \cup {<<"t","a","g","s">>}
    /\ metadata[<<"t","a","g","s">>].kind = "string"

\* the typed entries of the bag that share a lower-cased name with another
Colliding(bag) ==
    {i \in DOMAIN bag :
        /\ IsTyped(bag[i])
        /\ \E j \in DOMAIN bag :
              j # i /\ IsTyped(bag[j]) /\ SameField(bag[i], bag[j])}

\* C10 as stated: of several entries of type select, multi_select or date
\* whose names coincide after lower-casing, the field holds the value of
\* the entry that comes last in the bag.
C10_LastEntryWins ==
    pc = "extractedMetadata" =>
        LET bag == PropertiesOf(page)
        IN  \A i \in Colliding(bag) :
              (\A j \in Colliding(bag) : j > i => ~SameField(bag[i], bag[j]))
              => /\ toLowerCase(bag[i].key) \in DOMAIN metadata
                 /\ metadata[toLowerCase(bag[i].key)] = ExtractedValue(bag[i])

\* C10, amended: of several such entries the field holds the value of the
\* last one whose value is present; entries whose value is absent write
\* nothing and overwrite nothing.
C10_LastPresentEntryWins ==
    pc = "extractedMetadata" =>
        LET bag == PropertiesOf(page)
            Writers == {i \in Colliding(bag) : IsPresent(bag[i])}
        IN  /\ \A i \in Writers :
                  (\A j \in Writers : j > i => ~SameField(bag[i], bag[j]))
                  => /\ toLowerCase(bag[i].key) \in DOMAIN metadata
                     /\ metadata[toLowerCase(bag[i].key)] =
                           ExtractedValue(bag[i])
            /\ \A i \in Colliding(bag) \ Writers :
                  (\A j \in Writers : ~SameField(bag[i], bag[j]))
                  => toLowerCase(bag[i].key) \notin DOMAIN metadata \ FixedKeys

\* two selects named Tags and tags, both with a value: the second one's
\* name is the one the field holds
C10_Witness ==
    /\ pc = "extractedMetadata"
    /\ page.properties.def
    /\ Len(page.properties.bag) = 2
    /\ page.properties.bag[1].key = <<"T","a","g","s">>
    /\ page.properties.bag[2].key = <<"t","a","g","s">>
    /\ page.properties.bag[1].prop.type = "select"
    /\ page.properties.bag[2].prop.type = "select"
    /\ page.properties.bag[1].prop.select = [def |-> TRUE, name |-> Str(<<"a">>)]
    /\ page.properties.bag[2].prop.select = [def |-> TRUE, name |-> Str(<<"b">>)]
    /\ metadata[<<"t","a","g","s">>] = StringValue(<<"b">>)

(***************************************************************************)
(* extractTitle applied to every page of TitlePages.                       *)
(***************************************************************************)
InitTitle ==
    /\ pc = "extractTitle"
    /\ page \in TitlePages
    /\ title = Unset
    /\ metadata = Unset
    /\ IdleSlug /\ IdleRich /\ IdleBlock /\ IdleMain

ExtractTitle ==
    /\ pc = "extractTitle"
    /\ title' = extractTitle(page)
    /\ pc' = "extractedTitle"
    /\ UNCHANGED <<page, metadata, slugVars, richVars, blockVars, mainVars>>

NextTitle == ExtractTitle

SpecTitle == InitTitle /\ [][NextTitle]_vars

\* the property the title is looked up in: Name, or Title without a Name
HasTitleProp(pg) ==
    \/ HasProperty(PropertiesOf(pg), NameKey)
    \/ HasProperty(PropertiesOf(pg), TitleKey)
TitlePropOf(pg) ==
    IF HasProperty(PropertiesOf(pg), NameKey)
    THEN Property(PropertiesOf(pg), NameKey)
    ELSE Property(PropertiesOf(pg), TitleKey)

\* C8: extractTitle never fails; it returns "Untitled" for a page with
\* neither a Name nor a Title property, and when the property looked up
\* has no title value or a malformed one; otherwise it returns the plain
\* texts of the title spans of Name (of Title without a Name), joined in
\* order without a separator.
C8_TitleNeverFails ==
    pc = "extractedTitle" =>
        /\ ~title.threw
        /\ ~HasTitleProp(page) => title.value = Untitled
        /\ (HasTitleProp(page) /\ TitlePropOf(page).title.kind # "array")
              => title.value = Untitled
        /\ (HasTitleProp(page) /\ TitlePropOf(page).title.kind = "array")
              => title.value =
                   Join([i \in DOMAIN TitlePropOf(page).title.parts |->
                           OrEmpty(TitlePropOf(page).title.parts[i].plain_text)])

(***************************************************************************)
(* processBlocks applied to every list of at most MaxBlocks blocks.        *)
(***************************************************************************)
InitBlocks ==
    /\ pc = "processBlocks"
    /\ blocks \in BlockLists
    /\ content = Unset
    /\ IdleSlug /\ IdleRich /\ IdlePage /\ IdleMain

ProcessBlocks ==
    /\ pc = "processBlocks"
    /\ content' = processBlocks(blocks)
    /\ pc' = "processed"
    /\ UNCHANGED <<blocks, slugVars, richVars, pageVars, mainVars>>

NextBlocks == ProcessBlocks

SpecBlocks == InitBlocks /\ [][NextBlocks]_vars

IsRecognized(block) == block.type \in RecognizedTypes

\* C7: a block whose type tag is not one of the recognized ones, with or
\* without a payload or a type tag, is skipped: processBlocks returns for
\* every block list what it returns for the list without those blocks.
C7_UnrecognizedSkipped ==
    pc = "processed" =>
        content = processBlocks(SelectSeq(blocks, IsRecognized))

\* an unsupported block that carries rich text, before a heading
C7_Witness ==
    /\ pc = "processed"
    /\ Len(blocks) = 2
    /\ blocks[1].type = "child_page"
    /\ blocks[1].data = FullPayload
    /\ blocks[2].type = "heading_2"
    /\ blocks[2].data = FullPayload
    /\ content = <<"#", "#", " ", "*", "*", "x", "*", "*", "y", Newline, Newline>>

\* what a numbered item is documented to render as: the ordinal 1, always
NumberedLine(block) ==
    <<"1", ".", " ">>
    \o extractRichText(
          SpansOrNone((IF block.data.def THEN block.data ELSE NoPayload).rich_text))
    \o <<Newline>>

\* C11: processBlocks keeps no state across blocks: its output is the
\* fragments of the single blocks, joined in input order without a
\* separator, so processBlocks(xs ++ ys) = processBlocks(xs) ++
\* processBlocks(ys); of several numbered items each renders as "1. <text>"
\* and a newline.
C11_BlockwiseConcatenation ==
    pc = "processed" =>
        /\ content = Join([i \in DOMAIN blocks |-> processBlocks(<<blocks[i]>>)])
        /\ \A k \in 0..Len(blocks) :
              content = processBlocks(SubSeq(blocks, 1, k))
                        \o processBlocks(SubSeq(blocks, k + 1, Len(blocks)))
        /\ (\A i \in DOMAIN blocks : blocks[i].type = "numbered_list_item")
              => content = Join([i \in DOMAIN blocks |-> NumberedLine(blocks[i])])

\* two numbered items in a row, both rendered with the ordinal 1
C11_Witness ==
    /\ pc = "processed"
    /\ Len(blocks) = 2
    /\ blocks[1].type = "numbered_list_item"
    /\ blocks[2].type = "numbered_list_item"
    /\ blocks[1].data = FullPayload
    /\ blocks[2].data = SparsePayload
    /\ content = <<"1", ".", " ", "*", "*", "x", "*", "*", "y", Newline,
                   "1", ".", " ", Newline>>

(***************************************************************************)
(* The command line program: main, the constructor, fetchNotionData and    *)
(* generateSite.  A directory is the sequence of its path segments, a file *)
(* path is a directory and a file name.                                    *)
(***************************************************************************)
Path(dir, name) == [dir |-> dir, name |-> name]
Cwd == <<>>
Dist == <<"dist">>
Templates == <<"templates">>
Static == <<"static">>
MySite == <<"my-site">>
Public == <<"public">>

ConfigJson == <<"s","s","g","_","c","o","n","f","i","g",".","j","s","o","n">>
IndexEjs == <<"i","n","d","e","x",".","e","j","s">>
PageEjs == <<"p","a","g","e",".","e","j","s">>
HtmlExt == <<".","h","t","m","l">>
IndexHtml == <<"i","n","d","e","x">> \o HtmlExt

\* the directory and all the directories above it: mkdirSync, recursive
WithParents(dir) == {SubSeq(dir, 1, n) : n \in 1..Len(dir)}

NoDir == [def |-> FALSE, v |-> <<>>]
Dir(d) == [def |-> TRUE, v |-> d]

\* a configuration file holds any of the fields of Config
ConfigFile(token, database, outputDir) ==
    [kind |-> "config",
     body |-> [notionToken |-> token, databaseId |-> database,
               outputDir |-> outputDir]]
\* the file --init writes
InitConfigFile == ConfigFile(Str(<<>>), Str(<<>>), Dir(Dist))
DefaultTemplate == [kind |-> "template", body |-> "default"]
CustomTemplate == [kind |-> "template", body |-> "custom"]

\* { ...this.config, ...userConfig }: a field of the file replaces the default
Merge(default, given) == IF given.def THEN given.v ELSE default

\* process.env.NOTION_TOKEN || "", process.env.NOTION_DATABASE_ID || ""
DefaultConfig ==
    [notionToken |-> OrEmpty(env.NOTION_TOKEN),
     databaseId |-> OrEmpty(env.NOTION_DATABASE_ID),
     outputDir |-> Dist, templatesDir |-> Templates, staticDir |-> Static]

\* the constructor's configuration: the defaults, under the file's fields
LoadedConfig(configPath) ==
    IF configPath \in DOMAIN files
    THEN LET userConfig == files[configPath].body
         IN  [DefaultConfig EXCEPT
                !.notionToken = Merge(@, userConfig.notionToken),
                !.databaseId = Merge(@, userConfig.databaseId),
                !.outputDir = Merge(@, userConfig.outputDir)]
    ELSE DefaultConfig

\* createDefaultTemplates: a template that exists is left alone
WithDefaultTemplates(fs, templatesDir) ==
    LET withIndex == IF Path(templatesDir, IndexEjs) \in DOMAIN fs THEN fs
                     ELSE Put(fs, Path(templatesDir, IndexEjs), DefaultTemplate)
    IN  IF Path(templatesDir, PageEjs) \in DOMAIN withIndex THEN withIndex
        ELSE Put(withIndex, Path(templatesDir, PageEjs), DefaultTemplate)

\* the directories the constructor creates
ConstructorDirs(c) ==
    WithParents(c.outputDir) \cup WithParents(c.templatesDir)
    \cup WithParents(c.staticDir)

\* generator.config.outputDir = options.output, if the option is given
WithOutputOption(c) ==
    IF options.output.def THEN [c EXCEPT !.outputDir = options.output.v] ELSE c

\* axios resolves a response whose status is 2xx and rejects any other
AxiosResolves(status) == status >= 200 /\ status < 300

\* main with --init: the configuration file is written and main returns
MainInit ==
    /\ pc = "main"
    /\ options.init
    /\ files' = Put(files, Path(Cwd, ConfigJson), InitConfigFile)
    /\ exit' = "returned"
    /\ pc' = "done"
    /\ UNCHANGED <<env, options, config, dirs, pages, pageIndex, contentData,
                   slugVars, richVars, pageVars, blockVars>>

\* main without --init up to its first await: the constructor, the
\* --output override, and generateSite entering fetchNotionData, which
\* throws without credentials and otherwise posts the database query
MainGenerate ==
    /\ pc = "main"
    /\ ~options.init
    /\ LET configPath == Path(Cwd, ConfigJson)
           constructed == LoadedConfig(configPath)
       IN  /\ dirs' = dirs \cup ConstructorDirs(constructed)
           /\ files' = WithDefaultTemplates(files, constructed.templatesDir)
           /\ config' = WithOutputOption(constructed)
           /\ IF constructed.notionToken = <<>> \/ constructed.databaseId = <<>>
              THEN exit' = "Error: credentials required" /\ pc' = "done"
              ELSE exit' = exit /\ pc' = "query"
    /\ UNCHANGED <<env, options, pages, pageIndex, contentData,
                   slugVars, richVars, pageVars, blockVars>>

\* the answer to the database query: a rejection, or the pages
QueryDatabase ==
    /\ pc = "query"
    /\ \E resolved \in BOOLEAN :
          IF resolved
          THEN /\ pc' = IF pages = <<>> THEN "render" ELSE "blocks"
               /\ pageIndex' = 1
               /\ exit' = exit
          ELSE /\ pc' = "done"
               /\ exit' = "Error: Failed to fetch data from Notion"
               /\ pageIndex' = pageIndex
    /\ contentData' = <<>>
    /\ UNCHANGED <<env, options, config, dirs, files, pages,
                   slugVars, richVars, pageVars, blockVars>>

\* the record fetchNotionData pushes for a page
PageData(remote) ==
    [id |-> remote.page.id,
     title |-> extractTitle(remote.page).value,
     content |-> processBlocks(remote.blocks),
     metadata |-> extractMetadata(remote.page)]

\* one turn of the loop of fetchNotionData: the answer to the request for
\* the blocks of a page
FetchBlocks ==
    /\ pc = "blocks"
    /\ LET remote == pages[pageIndex]
           failed == \/ ~AxiosResolves(remote.status)
                     \/ remote.status = 200 /\ extractTitle(remote.page).threw
       IN  IF failed
           THEN /\ pc' = "done"
                /\ exit' = "Error: Failed to fetch data from Notion"
                /\ UNCHANGED <<pageIndex, contentData>>
           ELSE /\ contentData' =
                     IF remote.status = 200
                     THEN Append(contentData, PageData(remote))
                     ELSE contentData
                /\ pageIndex' = pageIndex + 1
                /\ pc' = IF pageIndex = Len(pages) THEN "render" ELSE "blocks"
                /\ exit' = exit
    /\ UNCHANGED <<env, options, config, dirs, files, pages,
                   slugVars, richVars, pageVars, blockVars>>

\* what ejs makes of a template and its data
Rendered(template, data) ==
    [kind |-> "html", body |-> [template |-> template, data |-> data]]

\* generateSite after the fetch: the index page is rendered and written.
\* The default index template calls slugify, which the data of the render
\* call does not hold, once for each page.
WriteIndex ==
    /\ pc = "render"
    /\ LET indexTemplate == files[Path(config.templatesDir, IndexEjs)]
       IN  IF indexTemplate = DefaultTemplate /\ contentData # <<>>
           THEN /\ exit' = "Error: slugify is not defined"
                /\ pc' = "done"
                /\ UNCHANGED <<files, pageIndex>>
           ELSE IF config.outputDir \notin dirs
           THEN /\ exit' = "Error: ENOENT"
                /\ pc' = "done"
                /\ UNCHANGED <<files, pageIndex>>
           ELSE /\ files' = Put(files, Path(config.outputDir, IndexHtml),
                                Rendered("index", contentData))
                /\ pageIndex' = 1
                /\ pc' = IF contentData = <<>> THEN "static" ELSE "pages"
                /\ exit' = exit
    /\ UNCHANGED <<env, options, config, dirs, pages, contentData,
                   slugVars, richVars, pageVars, blockVars>>

WritePageKeepExisting ==
    /\ pc = "pages"
    /\ LET pg == contentData[pageIndex]
           pageFilename == slugify(pg.title) \o HtmlExt
       IN  files' = IF Path(config.outputDir, pageFilename) \in DOMAIN files
                    THEN files
                    ELSE Put(files, Path(config.outputDir, pageFilename),
                             Rendered("page", pg))
    /\ pageIndex' = pageIndex + 1
    /\ pc' = IF pageIndex = Len(contentData) THEN "static" ELSE "pages"
    /\ UNCHANGED <<env, options, config, dirs, pages, contentData, exit,
                   slugVars, richVars, pageVars, blockVars>>

\* one turn of the loop of generateSite over the pages
WritePage ==
    /\ pc = "pages"
    /\ LET pg == contentData[pageIndex]
           pageFilename == slugify(pg.title) \o HtmlExt
       IN  files' = Put(files, Path(config.outputDir, pageFilename),
                        Rendered("page", pg))
    /\ pageIndex' = pageIndex + 1
    /\ pc' = IF pageIndex = Len(contentData) THEN "static" ELSE "pages"
    /\ UNCHANGED <<env, options, config, dirs, pages, contentData, exit,
                   slugVars, richVars, pageVars, blockVars>>

\* the static files are copied and generateSite returns
CopyStatic ==
    /\ pc = "static"
    /\ dirs' = dirs \cup WithParents(config.outputDir \o <<"static">>)
    /\ exit' = "success"
    /\ pc' = "done"
    /\ UNCHANGED <<env, options, config, files, pages, pageIndex, contentData,
                   slugVars, richVars, pageVars, blockVars>>

\* the pages of the remote database and the status of their block responses
TitledPage(id, key, spans) ==
    MakePage([id |-> id, created_time |-> Str(<<"c">>),
              last_edited_time |-> Str(<<"e">>), url |-> Str(<<"u">>)],
             [def |-> TRUE,
              bag |-> <<[key |-> key,
                         prop |-> Prop("title", NoSelect, NoMultiSelect,
                                       NoDate, spans)]>>])
Parts(s) == [kind |-> "array", parts |-> <<[plain_text |-> Str(s)]>>]
ParagraphBlock == [id |-> "b", type |-> "paragraph", data |-> FullPayload]
Remote(pg, status) ==
    [page |-> pg, blocks |-> <<ParagraphBlock>>, status |-> status]
RemotePages ==
    {Remote(TitledPage("pA", NameKey, Parts(<<"M","y"," ","P","a","g","e">>)), 200),
     Remote(TitledPage("pB", TitleKey, Parts(<<"m","y","-","p","a","g","e","!">>)), 200),
     Remote(TitledPage("pC", NameKey, Parts(<<"I","n","d","e","x">>)), 200),
     Remote(TitledPage("pD", NameKey, Parts(<<"!","?">>)), 200),
     Remote(TitledPage("pE", NameKey, Parts(<<"O","t","h","e","r">>)), 204),
     Remote(TitledPage("pF", NameKey, Parts(<<"G","o","n","e">>)), 404),
     Remote(TitledPage("pG", NameKey, [kind |-> "string", parts |-> <<>>]), 200)}
Databases ==
    UNION {{db \in [1..n -> RemotePages] :
              \A i, j \in 1..n : i # j => db[i].page.id # db[j].page.id} :
           n \in 0..MaxPages}

Environments ==
    {[NOTION_TOKEN |-> Str(<<"t">>), NOTION_DATABASE_ID |-> Str(<<"d">>)],
     [NOTION_TOKEN |-> Undef, NOTION_DATABASE_ID |-> Undef]}
Options == [init : BOOLEAN, output : {NoDir, Dir(MySite), Dir(Dist)}]
\* the file system before the run: no configuration file, the one --init
\* wrote, or an edited one; the default index template or the user's own
ConfigFiles ==
    {<<>>,
     Path(Cwd, ConfigJson) :> InitConfigFile,
     Path(Cwd, ConfigJson) :>
        ConfigFile(Str(<<"t">>), Str(<<"d">>), Dir(Public))}
TemplateFiles == {<<>>, Path(Templates, IndexEjs) :> CustomTemplate}

Init ==
    /\ pc = "main"
    /\ env \in Environments
    /\ options \in Options
    /\ config = Unset
    /\ \E cf \in ConfigFiles, tf \in TemplateFiles :
          /\ files = cf @@ tf
          /\ dirs \in {IF tf = <<>> THEN {} ELSE {Templates},
                        (IF tf = <<>> THEN {} ELSE {Templates}) \cup {MySite}}
    /\ pages \in Databases
    /\ pageIndex = 0
    /\ contentData = <<>>
    /\ exit = "running"
    /\ IdleSlug /\ IdleRich /\ IdlePage /\ IdleBlock

Next ==
    \/ MainInit
    \/ MainGenerate
    \/ QueryDatabase
    \/ FetchBlocks
    \/ WriteIndex
    \/ WritePage
    \/ CopyStatic

Spec == Init /\ [][Next]_vars

\* C3: the directory generateSite writes into, the one --output names or
\* else the configured one, exists before the first file is written, also
\* when it did not exist before the run; no write fails for want of it.
C3_OutputDirCreated ==
    /\ pc = "render" => config.outputDir \in dirs
    /\ exit # "Error: ENOENT"

\* fetchNotionData has returned its list
Fetched == pc \in {"render", "pages", "static"} \/ exit = "success"

\* C9: fetchNotionData returns one complete record for every page of the
\* database query, in query order, or it rejects; it never returns a list
\* from which a queried page is missing.
C9_OneRecordPerPage ==
    Fetched =>
        /\ Len(contentData) = Len(pages)
        /\ \A i \in DOMAIN pages :
              /\ contentData[i].id = pages[i].page.id
              /\ contentData[i].title = extractTitle(pages[i].page).value
              /\ contentData[i].content = processBlocks(pages[i].blocks)
              /\ contentData[i].metadata = extractMetadata(pages[i].page)

\* the number of pages generateSite has written a file for
PagesWritten ==
    IF pc = "pages" THEN pageIndex - 1
    ELSE IF pc = "static" \/ exit = "success" THEN Len(contentData)
    ELSE 0
\* generateSite has written the index page
IndexWritten == pc \in {"pages", "static"} \/ exit = "success"

\* the writes generateSite has made, in order: the index page, then the
\* pages in the order of the data
SiteWrites ==
    <<[name |-> IndexHtml, template |-> "index", data |-> contentData]>>
    \o [i \in 1..PagesWritten |->
          [name |-> slugify(contentData[i].title) \o HtmlExt,
           template |-> "page", data |-> contentData[i]]]

\* the names of the files of the output directory
OutputNames == {p.name : p \in {q \in DOMAIN files : q.dir = config.outputDir}}

\* C12: generateSite writes index.html first and then slugify(title).html
\* for each page in data order, with no collision handling: each file of
\* the output directory holds what the last write to its name wrote.  Of
\* pages with one slug the last survives, the page files are as many as
\* the distinct slugs (the empty slug gives ".html"), and a page whose slug
\* is "index" replaces the index page.
C12_LastWriteSurvives ==
    IndexWritten =>
        /\ OutputNames = {SiteWrites[i].name : i \in DOMAIN SiteWrites}
        /\ \A i \in DOMAIN SiteWrites :
              (\A j \in DOMAIN SiteWrites :
                  j > i => SiteWrites[j].name # SiteWrites[i].name)
              => LET file == files[Path(config.outputDir, SiteWrites[i].name)]
                 IN  /\ file.kind = "html"
                     /\ file.body.template = SiteWrites[i].template
                     /\ file.body.data = SiteWrites[i].data
        /\ Cardinality({SiteWrites[i].name : i \in 2..Len(SiteWrites)})
              = Cardinality({slugify(contentData[i].title) :
                               i \in 1..PagesWritten})

\* a finished run over two pages titled "My Page" and "my-page!": one
\* file my-page.html, holding the second page
C12_Witness ==
    /\ exit = "success"
    /\ Len(contentData) = 2
    /\ contentData[1].id = "pA"
    /\ contentData[2].id = "pB"
    /\ OutputNames = {IndexHtml, <<"m","y","-","p","a","g","e">> \o HtmlExt}
    /\ files[Path(config.outputDir, <<"m","y","-","p","a","g","e">> \o HtmlExt)]
          = Rendered("page", contentData[2])

====
